---- MODULE Spec2Model ----
(***************************************************************************)
(* A model of the style-cascade engine of renpy/style.py: the prefix and   *)
(* property registries, the expansion table, the Style objects with their  *)
(* shared (aliased) property lists and batches, the style manager, and the *)
(* resolution engine build_style / build_styles / rebuild / backup /       *)
(* restore.  Python objects that can be aliased (Style instances, lists of *)
(* batches, batch dicts) live in heaps indexed by allocation number.       *)
(***************************************************************************)
EXTENDS Integers, Sequences, FiniteSets, TLC

(***************************************************************************)
(* Bounds of the model.                                                    *)
(***************************************************************************)
\* Calls made on the style system in one run.
MaxCalls == 4
\* Raw values are 1..MaxValue.
MaxValue == 2

\* Style names used by the callers.
Names == {"a", "b"}
\* Python's None as a parent; no style is named so.
None == "None"
\* The parents a caller may name (forward references are allowed).
Parents == Names \cup {None}
\* The raw values assigned.
Values == 1..MaxValue
\* The prefixed property names the callers assign and delete.
AssignKeys == {"color", "hover_color"}

(***************************************************************************)
(* Strings.                                                                *)
(***************************************************************************)
startswith(s, r) == Len(s) >= Len(r) /\ SubSeq(s, 1, Len(r)) = r
endswith(s, r) == Len(s) >= Len(r) /\ SubSeq(s, Len(s) - Len(r) + 1, Len(s)) = r

SetMin(S) == CHOOSE x \in S : \A y \in S : x <= y

(***************************************************************************)
(* The prefix registry.                                                    *)
(***************************************************************************)
roles == <<"selected_", "">>

\* The module-level list, before any register_prefix call.
prefixes0 == <<"hover_", "idle_", "insensitive_", "activate_">>

\* The register_prefix calls of the module, in order: prefix, prio, addprefixes.
registrations ==
    << <<"selected_activate_", 6, <<>> >>,
       <<"selected_hover_", 5, <<"activate_">> >>,
       <<"selected_idle_", 5, <<>> >>,
       <<"selected_insensitive_", 5, <<>> >>,
       <<"selected_", 4, <<>> >>,
       <<"activate_", 3, <<>> >>,
       <<"hover_", 2, <<"activate_">> >>,
       <<"idle_", 2, <<>> >>,
       <<"insensitive_", 2, <<>> >>,
       <<"", 1, <<>> >> >>

\* [ a1 + a2 for a1 in alts1 for a2 in alts2 ]
cross(alts1, alts2) ==
    [ i \in 1..(Len(alts1) * Len(alts2)) |->
        alts1[((i - 1) \div Len(alts2)) + 1] \o alts2[((i - 1) % Len(alts2)) + 1] ]

\* register_prefix without `alts2 += addprefixes`.
register_prefix_no_addprefixes(reg, prefix, prio, addprefixes) ==
    LET rm == { i \in 1..Len(roles) : roles[i] # "" /\ startswith(prefix, roles[i]) }
        alts1 == IF rm = {} THEN roles ELSE << roles[SetMin(rm)] >>
        pm == { i \in 1..Len(reg.prefixes) : endswith(prefix, reg.prefixes[i]) }
        alts2 == IF pm = {} THEN reg.prefixes ELSE << reg.prefixes[SetMin(pm)] >>
    IN  [ prefixes |-> reg.prefixes,
          subs |-> (prefix :> <<prio, cross(alts1, alts2)>>) @@ reg.subs ]

\* One call of register_prefix on the registry state reg = [prefixes, subs].
\* alts2 is the list `prefixes` itself when no state suffix matches, so that
\* `alts2 += addprefixes` then extends the module-level list in place.
register_prefix(reg, prefix, prio, addprefixes) ==
    LET rm == { i \in 1..Len(roles) : roles[i] # "" /\ startswith(prefix, roles[i]) }
        alts1 == IF rm = {} THEN roles ELSE << roles[SetMin(rm)] >>
        pm == { i \in 1..Len(reg.prefixes) : endswith(prefix, reg.prefixes[i]) }
        alts2 == (IF pm = {} THEN reg.prefixes ELSE << reg.prefixes[SetMin(pm)] >>)
                     \o addprefixes
    IN  [ prefixes |-> IF pm = {} THEN alts2 ELSE reg.prefixes,
          subs |-> (prefix :> <<prio, cross(alts1, alts2)>>) @@ reg.subs ]

\* The registrations from the i-th on, each on the registry the one before
\* it left (bound as a value, so that it is computed once).
RECURSIVE register_all(_, _)
register_all(reg, i) ==
    IF i > Len(registrations) THEN reg
    ELSE CHOOSE r \in { register_all(next, i + 1) :
                          next \in { register_prefix(reg, registrations[i][1],
                                                     registrations[i][2],
                                                     registrations[i][3]) } } : TRUE

registry == register_all([prefixes |-> prefixes0, subs |-> <<>>], 1)

\* The list of state prefixes after the registrations.
prefixes == registry.prefixes

\* prefix -> <<prio, alts>>
prefix_subs == registry.subs

(***************************************************************************)
(* The property registry (three of the properties of style_properties:     *)
(* one with a normalizer, two without, the two an alias stands for).       *)
(***************************************************************************)
\* property -> the name of its normalizer, "None" when it has none.
style_properties == ("color" :> "color") @@ ("xanchor" :> "None") @@ ("xpos" :> "None")

\* The order in which init() enumerates style_properties.
property_order == <<"color", "xanchor", "xpos">>

substitutes == ("xalign" :> <<"xpos", "xanchor">>)

\* renpy.easy.color: a pure function of the raw value, not the identity.
easy_color(v) == v + 10

normalize(func, v) == IF func = "color" THEN easy_color(v) ELSE v

\* property -> number (0-based, as enumerate gives it).
property_number ==
    [ p \in DOMAIN style_properties |->
        (CHOOSE i \in 1..Len(property_order) : property_order[i] = p) - 1 ]

\* The offsets when property_numbers is not advanced: every prefix at 0.
prefix_offset_flat ==
    [ k \in { roles[i] \o prefixes[j] : i \in 1..Len(roles), j \in 1..Len(prefixes) } |-> 0 ]

\* prefix -> offset, for r in roles, for p in prefixes.
prefix_offset ==
    LET pairs == { <<i, j>> : i \in 1..Len(roles), j \in 1..Len(prefixes) }
    IN  [ k \in { roles[ij[1]] \o prefixes[ij[2]] : ij \in pairs } |->
            LET ij == CHOOSE x \in pairs : roles[x[1]] \o prefixes[x[2]] = k
            IN  ((ij[1] - 1) * Len(prefixes) + (ij[2] - 1)) * Len(property_order) ]

\* The total number of slots of a cache.
property_numbers == Len(roles) * Len(prefixes) * Len(property_order)

\* expansions[prefix + prop] for the canonical properties.
base_expansions ==
    LET pairs == { <<x, p>> : x \in DOMAIN prefix_subs, p \in DOMAIN style_properties }
    IN  [ k \in { xp[1] \o xp[2] : xp \in pairs } |->
            LET xp == CHOOSE y \in pairs : y[1] \o y[2] = k
                prio == prefix_subs[xp[1]][1]
                alts == prefix_subs[xp[1]][2]
            IN  [ i \in 1..Len(alts) |->
                    << prio, property_number[xp[2]] + prefix_offset[alts[i]],
                       style_properties[xp[2]] >> ] ]

\* The expansion of the first canonical property of an alias only.
first_expansion(e, p, bs) == IF bs = <<>> THEN <<>> ELSE e[p \o Head(bs)]

RECURSIVE concat_expansions(_, _, _)
concat_expansions(e, p, bs) ==
    IF bs = <<>> THEN <<>>
    ELSE e[p \o Head(bs)] \o concat_expansions(e, p, Tail(bs))

\* The prefixes for which init() expands the substitutes: prefixes + [ '' ].
substitute_prefixes == prefixes \o <<"">>

\* Map from prefix_property to its list of <<priority, slot number, function>>.
expansions ==
    LET pairs == { <<substitute_prefixes[i], k>> :
                      i \in 1..Len(substitute_prefixes), k \in DOMAIN substitutes }
    IN  [ k \in { xp[1] \o xp[2] : xp \in pairs } |->
            LET xp == CHOOSE y \in pairs : y[1] \o y[2] = k
            IN  concat_expansions(base_expansions, xp[1], substitutes[xp[2]]) ]
        @@ base_expansions

(***************************************************************************)
(* The program state.                                                      *)
(***************************************************************************)
VARIABLES
    style_map,       \* name -> Style object (its allocation number)
    styles,          \* the Style objects: name, parent, heavy, properties, cache
    lists,           \* the list objects: each a sequence of batch dicts
    dicts,           \* the batch dicts: prefixed property name -> raw value
    styles_built,    \* True once build_styles() has completed
    styles_pending,  \* the list of styles pending expansion, or None
    backups,         \* the snapshots backup() has returned to the caller
    built_once,      \* history: a call of build_styles() has completed
    calls,           \* the number of calls made so far
    last,            \* the last call made: its name and the Style it was made on
    err,             \* how the last call ended: "ok" or the exception raised
    selected,        \* Style object -> the prefix and offset set_prefix gave it
    got,             \* the value the last property read returned
    data,            \* JSONDB.data: key -> dict
    dirty,           \* JSONDB.dirty
    developer,       \* config.developer
    file             \* the content of the JSONDB's file: key -> dict, empty when absent

vars == <<style_map, styles, lists, dicts, styles_built, styles_pending,
          backups, built_once, calls, last, err, selected, got, data, dirty, developer, file>>

\* The state of the style module, of the reads of a Style, of a JSONDB.
stylevars == <<style_map, styles, lists, dicts, styles_built, styles_pending,
               backups, built_once>>
readvars == <<selected, got>>
dbvars == <<data, dirty, developer, file>>

\* A cache that has not been built (None or [ ]: both are false in `not cache`).
NoCache == <<>>

\* An unset slot of a cache (None); raw and normalized values are positive.
UnsetSlot == 0

\* styles_pending = None; 0 is no Style object.
NonePending == <<0>>

Range(f) == { f[i] : i \in DOMAIN f }

\* The heap a resolution reads.
Heap == [styles |-> styles, lists |-> lists, dicts |-> dicts, style_map |-> style_map]

(***************************************************************************)
(* expand_properties                                                       *)
(***************************************************************************)
\* The order a descending sort (rv.sort(reverse=True)) would use.
tuple_lt_descending(a, b) ==
    \/ a[1] > b[1]
    \/ a[1] = b[1] /\ a[2] > b[2]
    \/ a[1] = b[1] /\ a[2] = b[2] /\ a[3] > b[3]

\* The order of Python tuples <<prio, propn, newval>>.
tuple_lt(a, b) ==
    \/ a[1] < b[1]
    \/ a[1] = b[1] /\ a[2] < b[2]
    \/ a[1] = b[1] /\ a[2] = b[2] /\ a[3] < b[3]

\* rv.sort(): the triples in ascending order (equal triples write the same
\* value to the same slot, so one of them is kept).
RECURSIVE sort(_)
sort(S) ==
    IF S = {} THEN <<>>
    ELSE LET m == CHOOSE t \in S : \A u \in S \ {t} : tuple_lt(t, u)
         IN  <<m>> \o sort(S \ {m})

\* The <<prio, propn, newval>> of the entries of one batch, e the expansion table.
expanded(e, properties) ==
    UNION { { << e[prop][i][1], e[prop][i][2], normalize(e[prop][i][3], properties[prop]) >> :
              i \in 1..Len(e[prop]) } : prop \in DOMAIN properties }

\* expand_properties with the expansion table e.
expand_with(e, properties) ==
    IF \E prop \in DOMAIN properties : prop \notin DOMAIN e
    THEN [err |-> "Exception", rv |-> <<>>]
    ELSE [err |-> "ok", rv |-> sort(expanded(e, properties))]

\* [err, rv]: the sorted <<prio, propn, newval>> of one batch, or the
\* exception for an unknown property name.
expand_properties(properties) == expand_with(expansions, properties)

(***************************************************************************)
(* build_style                                                             *)
(***************************************************************************)
\* for prio, propn, val in rv: cache[propn] = val
RECURSIVE write_all(_, _)
write_all(cache, rv) ==
    IF rv = <<>> THEN cache
    ELSE write_all([cache EXCEPT ![Head(rv)[2] + 1] = Head(rv)[3]], Tail(rv))

\* for p in s.properties: for prio, propn, val in expand_properties(p): ...
\* on the batches ps (dict objects); [err, cache].
RECURSIVE apply_batches(_, _, _)

\* The batches after the first, whose expansion is e.
apply_expanded(H, cache, ps, e) ==
    IF e.err # "ok" THEN [err |-> e.err, cache |-> cache]
    ELSE apply_batches(H, write_all(cache, e.rv), Tail(ps))

apply_batches(H, cache, ps) ==
    IF ps = <<>> THEN [err |-> "ok", cache |-> cache]
    ELSE apply_expanded(H, cache, ps, expand_properties(H.dicts[Head(ps)]))

\* for s in light_styles: for p in s.properties: ...; [err, cache].
RECURSIVE apply_styles(_, _, _)

\* The styles after the first, whose batches gave r.
apply_rest(H, light_styles, r) ==
    IF r.err # "ok" THEN r
    ELSE apply_styles(H, r.cache, Tail(light_styles))

apply_styles(H, cache, light_styles) ==
    IF light_styles = <<>> THEN [err |-> "ok", cache |-> cache]
    ELSE apply_rest(H, light_styles,
                    apply_batches(H, cache, H.lists[H.styles[Head(light_styles)].properties]))

\* The while loop of build_style from style s: [err, light_styles, parent],
\* parent the heavy style the walk stops at, 0 when the chain ends.  Only
\* create() fills style_map, so every style a parent name resolves to is heavy.
RECURSIVE walk(_, _, _)
walk(H, s, light_styles) ==
    LET ls == <<s>> \o light_styles
        pn == H.styles[s].parent
    IN  IF pn = None THEN [err |-> "ok", light_styles |-> ls, parent |-> 0]
        ELSE IF pn \notin DOMAIN H.style_map
             THEN [err |-> "Exception", light_styles |-> ls, parent |-> 0]
        ELSE IF H.styles[H.style_map[pn]].heavy
             THEN [err |-> "ok", light_styles |-> ls, parent |-> H.style_map[pn]]
        ELSE walk(H, H.style_map[pn], ls)

\* build_style(style) on heap H: [err, styles], styles the Style objects
\* after the call (the caches built before an exception are kept).  active
\* is the set of styles whose build_style call is on the stack: a call on
\* one of them in an unchanged heap recurses until Python's recursion limit.
RECURSIVE build_style(_, _, _)

\* if parent: if not parent.cache: build_style(parent)
build_parent(H, parent, active) ==
    IF parent = 0 \/ H.styles[parent].cache # NoCache
    THEN [err |-> "ok", styles |-> H.styles]
    ELSE IF parent \in active
    THEN [err |-> "RuntimeError", styles |-> H.styles]
    ELSE build_style(H, parent, active \cup {parent})

\* A seed that is never the parent's cache.
seed_cache_unset(H, parent) ==
    [i \in 1..property_numbers |-> UnsetSlot]

\* cache = parent.cache[:], or [ None ] * property_numbers
seed_cache(H, parent) ==
    IF parent # 0 THEN H.styles[parent].cache
    ELSE [i \in 1..property_numbers |-> UnsetSlot]

\* style.cache = cache, r being the replay of light_styles over the seed.
store_cache(H, style, r) ==
    IF r.err # "ok" THEN [err |-> r.err, styles |-> H.styles]
    ELSE [err |-> "ok", styles |-> [H.styles EXCEPT ![style].cache = r.cache]]

\* The replay of the walk w over the seed.
replay(H, style, w) ==
    store_cache(H, style, apply_styles(H, seed_cache(H, w.parent), w.light_styles))

\* build_style after the parent's build pb.
build_after_parent(H, style, w, pb) ==
    IF pb.err # "ok" THEN pb
    ELSE replay([H EXCEPT !.styles = pb.styles], style, w)

\* build_style after the walk w.
build_after_walk(H, style, active, w) ==
    IF w.err # "ok" THEN [err |-> w.err, styles |-> H.styles]
    ELSE build_after_parent(H, style, w, build_parent(H, w.parent, active))

build_style(H, style, active) ==
    IF ~H.styles[style].heavy THEN [err |-> "ok", styles |-> H.styles]
    ELSE build_after_walk(H, style, active, walk(H, style, <<>>))

\* for s in styles_pending: build_style(s); stops at the first exception.
RECURSIVE build_pending(_, _)

\* The pending styles after the first, whose build gave r.
build_rest(H, pending, r) ==
    IF r.err # "ok" THEN r
    ELSE build_pending([H EXCEPT !.styles = r.styles], Tail(pending))

build_pending(H, pending) ==
    IF pending = <<>> THEN [err |-> "ok", styles |-> H.styles]
    ELSE build_rest(H, pending, build_style(H, Head(pending), {Head(pending)}))

(***************************************************************************)
(* Style and StyleManager operations.                                      *)
(***************************************************************************)
\* The Style objects a caller reaches through the style manager.
Registered == Range(style_map)

\* if styles_built: build_style(self) else: styles_pending.append(self),
\* for the new object, the last of st; [err, styles, pending].
init_build(st, ls) ==
    IF styles_built
    THEN [pending |-> styles_pending] @@
         build_style([styles |-> st, lists |-> ls, dicts |-> dicts,
                      style_map |-> style_map], Len(st), {Len(st)})
    ELSE IF styles_pending = NonePending
    THEN [err |-> "AttributeError", styles |-> st, pending |-> styles_pending]
    ELSE [err |-> "ok", styles |-> st, pending |-> Append(styles_pending, Len(st))]

\* Style.__init__(parent, heavy=...), with no properties: [err, styles,
\* pending]; the new object is the last of styles, its list the last one.
Style_init(parent, heavy) ==
    init_build(Append(styles, [name |-> None, parent |-> parent, heavy |-> heavy,
                               properties |-> Len(lists) + 1, cache |-> NoCache]),
               Append(lists, <<>>))

\* StyleManager.create(name, parent).  An exception in the constructor
\* leaves the new object unregistered and unreachable.
create(name, parent) ==
    /\ \E r \in { Style_init(parent, TRUE) } :
           /\ err' = r.err
           /\ IF r.err = "ok"
              THEN /\ styles' = [r.styles EXCEPT ![Len(r.styles)].name = name]
                   /\ lists' = Append(lists, <<>>)
                   /\ styles_pending' = r.pending
                   /\ style_map' = (name :> Len(r.styles)) @@ style_map
                   /\ last' = [op |-> "create", s |-> Len(r.styles)]
              ELSE /\ styles' = SubSeq(r.styles, 1, Len(styles))
                   /\ last' = [op |-> "create", s |-> 0]
                   /\ UNCHANGED <<lists, styles_pending, style_map>>
    /\ UNCHANGED <<dicts, styles_built, backups, built_once>>

\* Style(parent): an anonymous light style, as the widgets construct them.
Style(parent) ==
    /\ \E r \in { Style_init(parent, FALSE) } :
           /\ err' = r.err
           /\ IF r.err = "ok"
              THEN /\ styles' = r.styles
                   /\ lists' = Append(lists, <<>>)
                   /\ styles_pending' = r.pending
                   /\ last' = [op |-> "Style", s |-> Len(r.styles)]
              ELSE /\ styles' = SubSeq(r.styles, 1, Len(styles))
                   /\ last' = [op |-> "Style", s |-> 0]
                   /\ UNCHANGED <<lists, styles_pending>>
    /\ UNCHANGED <<style_map, dicts, styles_built, backups, built_once>>

\* if styles_built: build_style(self), on the heap with st, ls, ds.
build_if_built(st, ls, ds, self) ==
    IF styles_built
    THEN build_style([styles |-> st, lists |-> ls, dicts |-> ds,
                      style_map |-> style_map], self, {self})
    ELSE [err |-> "ok", styles |-> st]

\* Style.setattr(name, value)
setattr(self, name, value) ==
    /\ dicts' = Append(dicts, name :> value)
    /\ lists' = [lists EXCEPT ![styles[self].properties] = Append(@, Len(dicts) + 1)]
    /\ \E r \in { build_if_built(styles, lists', dicts', self) } :
           /\ styles' = r.styles
           /\ err' = r.err
    /\ last' = [op |-> "setattr", s |-> self]
    /\ UNCHANGED <<style_map, styles_built, styles_pending, backups, built_once>>

\* Style.delattr(name): deletes name from every batch, in place.
delattr(self, name) ==
    /\ dicts' = [ d \in DOMAIN dicts |->
                    IF d \in Range(lists[styles[self].properties])
                    THEN [ k \in (DOMAIN dicts[d]) \ {name} |-> dicts[d][k] ]
                    ELSE dicts[d] ]
    /\ err' = "ok"
    /\ last' = [op |-> "delattr", s |-> self]
    /\ UNCHANGED <<style_map, styles, lists, styles_built, styles_pending, backups,
                   built_once>>

\* clear() without the styles_built test.
clear_unguarded(self) ==
    /\ err' = "ok"
    /\ lists' = Append(lists, <<>>)
    /\ styles' = [styles EXCEPT ![self].properties = Len(lists) + 1]
    /\ last' = [op |-> "clear", s |-> self]
    /\ UNCHANGED <<style_map, dicts, styles_built, styles_pending, backups, built_once>>

\* Style.clear()
clear(self) ==
    /\ IF styles_built
       THEN /\ err' = "Exception"
            /\ UNCHANGED <<styles, lists>>
       ELSE /\ err' = "ok"
            /\ lists' = Append(lists, <<>>)
            /\ styles' = [styles EXCEPT ![self].properties = Len(lists) + 1]
    /\ last' = [op |-> "clear", s |-> self]
    /\ UNCHANGED <<style_map, dicts, styles_built, styles_pending, backups, built_once>>

\* Style.take(other)
take(self, other) ==
    /\ lists' = Append(lists, lists[styles[other].properties])
    /\ \E r \in { build_if_built([styles EXCEPT ![self].properties = Len(lists) + 1],
                                 lists', dicts, self) } :
           /\ styles' = r.styles
           /\ err' = r.err
    /\ last' = [op |-> "take", s |-> self]
    /\ UNCHANGED <<style_map, dicts, styles_built, styles_pending, backups, built_once>>

\* The keyword arguments left once every name present in a batch of self
\* has been deleted from them.
defaults_left(self, properties) ==
    [ k \in (DOMAIN properties) \
              UNION { DOMAIN dicts[d] : d \in Range(lists[styles[self].properties]) } |->
        properties[k] ]

\* Style.setdefault(**properties)
setdefault(self, properties) ==
    /\ \E left \in { defaults_left(self, properties) } :
           IF DOMAIN left # {}
           THEN /\ dicts' = Append(dicts, left)
                /\ lists' = [lists EXCEPT ![styles[self].properties] =
                                             Append(@, Len(dicts) + 1)]
           ELSE UNCHANGED <<dicts, lists>>
    /\ err' = "ok"
    /\ last' = [op |-> "setdefault", s |-> self]
    /\ UNCHANGED <<style_map, styles, styles_built, styles_pending, backups, built_once>>

\* self.prefix and self.offset: what __init__ set until set_prefix is called.
prefix_of(self) == IF self \in DOMAIN selected THEN selected[self].prefix ELSE "insensitive_"
offset_of(self) ==
    IF self \in DOMAIN selected THEN selected[self].offset ELSE prefix_offset["insensitive_"]

\* Style.set_prefix(prefix): the prefix is assigned before prefix_offset is
\* indexed, so a KeyError leaves the new prefix with the old offset.
set_prefix(self, prefix) ==
    /\ IF prefix \in DOMAIN prefix_offset
       THEN /\ selected' = (self :> [prefix |-> prefix, offset |-> prefix_offset[prefix]])
                            @@ selected
            /\ err' = "ok"
       ELSE /\ selected' = (self :> [prefix |-> prefix, offset |-> offset_of(self)]) @@ selected
            /\ err' = "KeyError"
    /\ last' = [op |-> "set_prefix", s |-> self]
    /\ UNCHANGED <<stylevars, got>>

\* The getter of a canonical property: self.cache[self.offset + number];
\* indexing a cache that is None raises TypeError.
getattr(self, name) ==
    /\ IF styles[self].cache = NoCache
       THEN got' = UnsetSlot /\ err' = "TypeError"
       ELSE got' = styles[self].cache[offset_of(self) + property_number[name] + 1]
              /\ err' = "ok"
    /\ last' = [op |-> "getattr", s |-> self]
    /\ UNCHANGED <<stylevars, selected>>

(***************************************************************************)
(* build_styles, rebuild, backup, restore                                  *)
(***************************************************************************)
\* The effect of build_styles() on styles, styles_pending, styles_built
\* and err, given the value of styles_built when it is called.
build_styles_from(built) ==
    IF styles_pending = NonePending
    THEN \* for s in None
         /\ err' = "TypeError"
         /\ styles_built' = built
         /\ UNCHANGED <<styles, styles_pending, built_once>>
    ELSE \E r \in { build_pending(Heap, styles_pending) } :
             /\ styles' = r.styles
             /\ err' = r.err
             /\ built_once' = (built_once \/ r.err = "ok")
             /\ IF r.err = "ok"
                THEN styles_pending' = NonePending /\ styles_built' = TRUE
                ELSE styles_pending' = styles_pending /\ styles_built' = built

build_styles ==
    /\ build_styles_from(styles_built)
    /\ last' = [op |-> "build_styles", s |-> 0]
    /\ UNCHANGED <<style_map, lists, dicts, backups>>

\* rebuild(): `global style_pending` names another variable, so the list
\* of heavy styles is a local; Style has __slots__ and no __dict__, so
\* resetting the first cache raises AttributeError.
rebuild ==
    /\ IF \E i \in Registered : styles[i].heavy
       THEN /\ styles_built' = FALSE
            /\ err' = "AttributeError"
            /\ UNCHANGED <<styles, styles_pending, built_once>>
       ELSE build_styles_from(FALSE)
    /\ last' = [op |-> "rebuild", s |-> 0]
    /\ UNCHANGED <<style_map, lists, dicts, backups>>

\* The sequences that enumerate the set S once each (a dict's iteration order).
Orders(S) ==
    { q \in [1..Cardinality(S) -> S] : \A i, j \in DOMAIN q : q[i] = q[j] => i = j }

\* backup(): a new list per registered style, holding the same batch dicts.
backup ==
    /\ \E ks \in { CHOOSE q \in Orders(DOMAIN style_map) : TRUE } :
           /\ lists' = lists \o [ i \in 1..Len(ks) |->
                                    lists[styles[style_map[ks[i]]].properties] ]
           /\ backups' = Append(backups,
                  [ k \in DOMAIN style_map |->
                      Len(lists) + (CHOOSE i \in 1..Len(ks) : ks[i] = k) ])
    /\ err' = "ok"
    /\ last' = [op |-> "backup", s |-> 0]
    /\ UNCHANGED <<style_map, styles, dicts, styles_built, styles_pending, built_once>>

\* restore(o) appending to the pending list it finds instead of a new one.
restore_keeping_pending(b, ks) ==
    /\ styles_pending' = (IF styles_pending = NonePending THEN <<>> ELSE styles_pending)
                            \o [ i \in 1..Len(ks) |-> style_map[ks[i]] ]
    /\ styles_built' = FALSE
    /\ styles' = [ i \in DOMAIN styles |->
                     IF \E k \in DOMAIN backups[b] : style_map[k] = i
                     THEN [styles[i] EXCEPT !.properties =
                             backups[b][CHOOSE k \in DOMAIN backups[b] : style_map[k] = i]]
                     ELSE styles[i] ]
    /\ err' = "ok"
    /\ last' = [op |-> "restore", s |-> b]
    /\ UNCHANGED <<style_map, lists, dicts, backups, built_once>>

\* restore(o) dropping the cache of the styles it restores, as rebuild() means to.
restore_dropping_caches(b, ks) ==
    /\ styles_pending' = [ i \in 1..Len(ks) |-> style_map[ks[i]] ]
    /\ styles_built' = FALSE
    /\ styles' = [ i \in DOMAIN styles |->
                     IF \E k \in DOMAIN backups[b] : style_map[k] = i
                     THEN [styles[i] EXCEPT !.properties =
                             backups[b][CHOOSE k \in DOMAIN backups[b] : style_map[k] = i],
                                            !.cache = NoCache]
                     ELSE styles[i] ]
    /\ err' = "ok"
    /\ last' = [op |-> "restore", s |-> b]
    /\ UNCHANGED <<style_map, lists, dicts, backups, built_once>>

\* restore(o) of the b-th snapshot o, iterating o in the order ks.
restore(b, ks) ==
    /\ styles_pending' = [ i \in 1..Len(ks) |-> style_map[ks[i]] ]
    /\ styles_built' = FALSE
    /\ styles' = [ i \in DOMAIN styles |->
                     IF \E k \in DOMAIN backups[b] : style_map[k] = i
                     THEN [styles[i] EXCEPT !.properties =
                             backups[b][CHOOSE k \in DOMAIN backups[b] : style_map[k] = i]]
                     ELSE styles[i] ]
    /\ err' = "ok"
    /\ last' = [op |-> "restore", s |-> b]
    /\ UNCHANGED <<style_map, lists, dicts, backups, built_once>>

(***************************************************************************)
(* The specification.                                                      *)
(***************************************************************************)
\* One batch of keyword arguments: a non-empty dict over AssignKeys.
Batches ==
    UNION { [K -> Values] : K \in (SUBSET AssignKeys) \ {{}} }

Init ==
    /\ style_map = <<>>
    /\ styles = <<>>
    /\ lists = <<>>
    /\ dicts = <<>>
    /\ styles_built = FALSE
    /\ styles_pending = <<>>
    /\ backups = <<>>
    /\ built_once = FALSE
    /\ calls = 0
    /\ last = [op |-> "init", s |-> 0]
    /\ err = "ok"
    /\ selected = <<>>
    /\ got = UnsetSlot
    /\ data = <<>>
    /\ dirty = FALSE
    /\ developer = FALSE
    /\ file = <<>>

\* Every call is counted, up to MaxCalls.
counted == calls < MaxCalls /\ calls' = calls + 1 /\ UNCHANGED <<readvars, dbvars>>

Next ==
    \/ \E name \in Names, parent \in Parents : counted /\ create(name, parent)
    \/ \E parent \in Names : counted /\ Style(parent)
    \/ \E self \in Registered, name \in AssignKeys, value \in Values :
          counted /\ setattr(self, name, value)
    \/ \E self \in Registered, name \in AssignKeys : counted /\ delattr(self, name)
    \/ \E self \in Registered : counted /\ clear(self)
    \/ \E self \in Registered, other \in Registered : counted /\ take(self, other)
    \/ \E self \in Registered, properties \in Batches :
          counted /\ setdefault(self, properties)
    \/ counted /\ build_styles
    \/ counted /\ rebuild
    \/ counted /\ backup
    \/ \E b \in DOMAIN backups : \E ks \in Orders(DOMAIN backups[b]) :
          counted /\ restore(b, ks)

Spec == Init /\ [][Next]_vars

(***************************************************************************)
(* Reading a style under an active prefix: a session in which "a" and its  *)
(* child "b" are registered, given position properties, built and read.    *)
(***************************************************************************)
MaxPrefixCalls == 5

\* The names assigned and the prefixes selected.
PrefixKeys == {"xpos", "hover_xpos"}
ReadPrefixes == {"hover_", "idle_", ""}

\* The state after style.create("a", None) and style.create("b", parent).
Registered2(parent) ==
    /\ style_map = ("a" :> 1) @@ ("b" :> 2)
    /\ styles = << [name |-> "a", parent |-> None, heavy |-> TRUE,
                    properties |-> 1, cache |-> NoCache],
                   [name |-> "b", parent |-> parent, heavy |-> TRUE,
                    properties |-> 2, cache |-> NoCache] >>
    /\ lists = << <<>>, <<>> >>
    /\ dicts = <<>>
    /\ styles_built = FALSE
    /\ styles_pending = <<1, 2>>
    /\ backups = <<>>
    /\ built_once = FALSE
    /\ calls = 0
    /\ last = [op |-> "create", s |-> 2]
    /\ err = "ok"
    /\ selected = <<>>
    /\ got = UnsetSlot
    /\ data = <<>>
    /\ dirty = FALSE
    /\ developer = FALSE
    /\ file = <<>>

InitPrefix == Registered2("a")

counted_prefix == calls < MaxPrefixCalls /\ calls' = calls + 1 /\ UNCHANGED dbvars

\* The properties are assigned before the build, the reads come at any time.
NextPrefix ==
    \/ \E self \in Registered, name \in PrefixKeys, value \in Values :
          counted_prefix /\ ~styles_built /\ setattr(self, name, value)
                         /\ UNCHANGED readvars
    \/ counted_prefix /\ build_styles /\ UNCHANGED readvars
    \/ \E self \in Registered, prefix \in ReadPrefixes :
          counted_prefix /\ set_prefix(self, prefix)
    \/ \E self \in Registered : counted_prefix /\ getattr(self, "xpos")

SpecPrefix == InitPrefix /\ [][NextPrefix]_vars

(***************************************************************************)
(* Prefixed names and aliases: a session in which the parentless styles    *)
(* "a" and "b" are registered, given prefixed and aliased properties and   *)
(* built.                                                                  *)
(***************************************************************************)
MaxAliasCalls == 3

\* The names assigned one at a time, and the batches given as keywords.
AliasKeys == {"selected_hover_color", "selected_hover_xalign"}
AliasBatches ==
    UNION { { ("xalign" :> v), ("xpos" :> v) @@ ("xanchor" :> v),
              ("hover_xalign" :> v), ("hover_xpos" :> v) @@ ("hover_xanchor" :> v) } :
            v \in Values }

InitAlias == Registered2(None)

counted_alias ==
    calls < MaxAliasCalls /\ calls' = calls + 1 /\ UNCHANGED <<readvars, dbvars>>

NextAlias ==
    \/ \E self \in Registered, name \in AliasKeys, value \in Values :
          counted_alias /\ setattr(self, name, value)
    \/ \E self \in Registered, properties \in AliasBatches :
          counted_alias /\ setdefault(self, properties)
    \/ counted_alias /\ build_styles

SpecAlias == InitAlias /\ [][NextAlias]_vars

(***************************************************************************)
(* The order of the pending list: a session in which "a" and its child "b" *)
(* are registered, then assigned to, snapshotted, restored and built.      *)
(***************************************************************************)
MaxOrderCalls == 5

OrderKeys == {"color"}

InitOrder == Registered2("a")

counted_order ==
    calls < MaxOrderCalls /\ calls' = calls + 1 /\ UNCHANGED <<readvars, dbvars>>

NextOrder ==
    \/ \E self \in Registered, name \in OrderKeys, value \in Values :
          counted_order /\ setattr(self, name, value)
    \/ counted_order /\ build_styles
    \/ counted_order /\ backup
    \/ \E b \in DOMAIN backups : \E ks \in Orders(DOMAIN backups[b]) :
          counted_order /\ restore(b, ks)

SpecOrder == InitOrder /\ [][NextOrder]_vars

(***************************************************************************)
(* Styles registered after a snapshot: a session in which backup() was     *)
(* called on the empty style_map, then "a" and its child "b" registered.   *)
(***************************************************************************)
MaxFrameCalls == 4

\* The state after o = backup(); style.create("a", None); style.create("b", "a").
InitFrame ==
    /\ style_map = ("a" :> 1) @@ ("b" :> 2)
    /\ styles = << [name |-> "a", parent |-> None, heavy |-> TRUE,
                    properties |-> 1, cache |-> NoCache],
                   [name |-> "b", parent |-> "a", heavy |-> TRUE,
                    properties |-> 2, cache |-> NoCache] >>
    /\ lists = << <<>>, <<>> >>
    /\ dicts = <<>>
    /\ styles_built = FALSE
    /\ styles_pending = <<1, 2>>
    /\ backups = << <<>> >>
    /\ built_once = FALSE
    /\ calls = 0
    /\ last = [op |-> "create", s |-> 2]
    /\ err = "ok"
    /\ selected = <<>>
    /\ got = UnsetSlot
    /\ data = <<>>
    /\ dirty = FALSE
    /\ developer = FALSE
    /\ file = <<>>

counted_frame ==
    calls < MaxFrameCalls /\ calls' = calls + 1 /\ UNCHANGED <<readvars, dbvars>>

NextFrame ==
    \/ \E self \in Registered, name \in OrderKeys, value \in Values :
          counted_frame /\ setattr(self, name, value)
    \/ counted_frame /\ build_styles
    \/ counted_frame /\ backup
    \/ \E b \in DOMAIN backups : \E ks \in Orders(DOMAIN backups[b]) :
          counted_frame /\ restore(b, ks)

SpecFrame == InitFrame /\ [][NextFrame]_vars

(***************************************************************************)
(* JSONDB: one database created with key=None and default=None, whose file *)
(* either does not exist or holds one entry.  The values stored are JSON   *)
(* values or an object json.dumps cannot serialize.                        *)
(***************************************************************************)
DBKeys == {"x", "y"}
JSONValues == {"1", "null"}
NotJSON == "object()"
DBValues == JSONValues \cup {NotJSON}

\* The dicts a caller passes to update and |=.
DBDicts == UNION { [K -> DBValues] : K \in (SUBSET DBKeys) \ {{}} }

\* json.dumps(value) succeeds: on a value, on a dict of values.
dumps(value) == value # NotJSON
dumps_dict(d) == \A k \in DOMAIN d : dumps(d[k])

\* JSONDB.check(value), serializable saying whether json.dumps accepts it:
\* the exception raised, or "ok".
check(serializable) ==
    IF ~developer THEN "RuntimeError"
    ELSE IF ~serializable THEN "TypeError"
    ELSE "ok"

\* self.data after get_dict(): the entry of the key 'data' is created, as
\* a copy of the (empty) default, when it is missing.
get_dict_data == IF "data" \in DOMAIN data THEN data ELSE ("data" :> <<>>) @@ data

\* The dict get_dict() returns.
get_dict == get_dict_data["data"]

\* self.data with the dict of the key 'data' replaced by d.
with_dict(d) == [get_dict_data EXCEPT !["data"] = d]

\* A dict without the key k; a dict updated with the dict other.
without(d, k) == [ j \in (DOMAIN d) \ {k} |-> d[j] ]
updated(d, other) == other @@ d

JSONDB_setitem(key, value) ==
    /\ err' = check(dumps(value))
    /\ IF err' = "ok"
       THEN data' = with_dict((key :> value) @@ without(get_dict, key)) /\ dirty' = TRUE
       ELSE UNCHANGED <<data, dirty>>
    /\ last' = [op |-> "__setitem__", s |-> 0, new |-> key \notin DOMAIN get_dict]

JSONDB_delitem(key) ==
    /\ dirty' = TRUE
    /\ IF key \in DOMAIN get_dict
       THEN data' = with_dict(without(get_dict, key)) /\ err' = "ok"
       ELSE data' = get_dict_data /\ err' = "KeyError"
    /\ last' = [op |-> "__delitem__", s |-> 0, new |-> FALSE]

JSONDB_clear ==
    /\ dirty' = TRUE
    /\ data' = with_dict(<<>>)
    /\ err' = "ok"
    /\ last' = [op |-> "clear", s |-> 0, new |-> FALSE]

JSONDB_pop(key) ==
    /\ dirty' = TRUE
    /\ data' = with_dict(without(get_dict, key))
    /\ err' = "ok"
    /\ last' = [op |-> "pop", s |-> 0, new |-> FALSE]

\* popitem(): the pair removed is the dict's choice.
JSONDB_popitem ==
    /\ dirty' = TRUE
    /\ IF DOMAIN get_dict = {}
       THEN data' = get_dict_data /\ err' = "KeyError"
       ELSE \E k \in DOMAIN get_dict : data' = with_dict(without(get_dict, k)) /\ err' = "ok"
    /\ last' = [op |-> "popitem", s |-> 0, new |-> FALSE]

JSONDB_setdefault(key, default) ==
    /\ IF key \in DOMAIN get_dict
       THEN /\ err' = "ok"
            /\ data' = get_dict_data
            /\ UNCHANGED dirty
       ELSE /\ err' = check(dumps(default))
            /\ IF err' = "ok"
               THEN data' = with_dict((key :> default) @@ get_dict) /\ dirty' = TRUE
               ELSE data' = get_dict_data /\ UNCHANGED dirty
    /\ last' = [op |-> "setdefault", s |-> 0, new |-> key \notin DOMAIN get_dict]

JSONDB_update(d) ==
    /\ dirty' = TRUE
    /\ err' = check(dumps_dict(d))
    /\ IF err' = "ok"
       THEN data' = with_dict(updated(get_dict, d))
       ELSE UNCHANGED data
    /\ last' = [op |-> "update", s |-> 0, new |-> TRUE]

JSONDB_ior(other) ==
    /\ dirty' = TRUE
    /\ data' = with_dict(updated(get_dict, other))
    /\ err' = "ok"
    /\ last' = [op |-> "__ior__", s |-> 0, new |-> TRUE]

\* save() that clears dirty without writing the file.
JSONDB_save_unwritten ==
    /\ dirty' = FALSE
    /\ err' = "ok"
    /\ last' = [op |-> "save", s |-> 0, new |-> FALSE]
    /\ UNCHANGED <<data, file>>

\* JSONDB.save(): nothing when not dirty; else json.dump(self.data) to the
\* new file, renamed over the old one, and dirty is cleared.
JSONDB_save ==
    /\ IF dirty THEN file' = data ELSE UNCHANGED file
    /\ dirty' = FALSE
    /\ err' = "ok"
    /\ last' = [op |-> "save", s |-> 0, new |-> FALSE]
    /\ UNCHANGED data

\* JSONDB.__getitem__(key): get_dict()[key].
JSONDB_getitem(key) ==
    /\ data' = get_dict_data
    /\ err' = IF key \in DOMAIN get_dict THEN "ok" ELSE "KeyError"
    /\ last' = [op |-> "__getitem__", s |-> 0, new |-> FALSE]
    /\ UNCHANGED dirty

\* JSONDB(filename): the file is not loadable, or json.load gives its dict.
InitDB ==
    /\ style_map = <<>>
    /\ styles = <<>>
    /\ lists = <<>>
    /\ dicts = <<>>
    /\ styles_built = FALSE
    /\ styles_pending = <<>>
    /\ backups = <<>>
    /\ built_once = FALSE
    /\ calls = 0
    /\ last = [op |-> "__init__", s |-> 0, new |-> FALSE]
    /\ err = "ok"
    /\ selected = <<>>
    /\ got = UnsetSlot
    /\ file \in { <<>>, ("data" :> ("x" :> "1")) }
    /\ data = file
    /\ dirty = FALSE
    /\ developer \in BOOLEAN

\* A call on the database leaves the styles and config.developer alone.
db_call == UNCHANGED <<stylevars, readvars, calls, developer>>

\* A call other than save() leaves the file alone.
mem_call == db_call /\ UNCHANGED file

NextDB ==
    \/ \E key \in DBKeys, value \in DBValues : mem_call /\ JSONDB_setitem(key, value)
    \/ \E key \in DBKeys : mem_call /\ JSONDB_delitem(key)
    \/ mem_call /\ JSONDB_clear
    \/ \E key \in DBKeys : mem_call /\ JSONDB_pop(key)
    \/ mem_call /\ JSONDB_popitem
    \/ \E key \in DBKeys, default \in DBValues : mem_call /\ JSONDB_setdefault(key, default)
    \/ \E d \in DBDicts : mem_call /\ JSONDB_update(d)
    \/ \E other \in DBDicts : mem_call /\ JSONDB_ior(other)
    \/ \E key \in DBKeys : mem_call /\ JSONDB_getitem(key)
    \/ db_call /\ JSONDB_save

SpecDB == InitDB /\ [][NextDB]_vars

(***************************************************************************)
(* Definitions the properties are stated with.                             *)
(***************************************************************************)
\* The walk from s succeeds and the heavy style it stops at has a cache.
ParentCacheBuilt(H, s) ==
    /\ walk(H, s, <<>>).err = "ok"
    /\ walk(H, s, <<>>).parent # 0 => H.styles[walk(H, s, <<>>).parent].cache # NoCache

\* The resolution of the current batches of s (and of the light styles of
\* its walk) over the current cache of its heavy parent.
ResolveOverParent(H, s) ==
    apply_styles(H, seed_cache(H, walk(H, s, <<>>).parent),
                 walk(H, s, <<>>).light_styles).cache

\* The parent chain of s: does it come back to a style already seen?
RECURSIVE ChainCyclic(_, _, _)
ChainCyclic(H, s, seen) ==
    LET pn == H.styles[s].parent
    IN  IF pn = None \/ pn \notin DOMAIN H.style_map THEN FALSE
        ELSE IF H.style_map[pn] \in seen THEN TRUE
        ELSE ChainCyclic(H, H.style_map[pn], seen \cup {H.style_map[pn]})

\* The parent chain of s ends at a style with no parent, every name known.
RECURSIVE ChainEnds(_, _, _)
ChainEnds(H, s, seen) ==
    LET pn == H.styles[s].parent
    IN  IF pn = None THEN TRUE
        ELSE IF pn \notin DOMAIN H.style_map \/ H.style_map[pn] \in seen THEN FALSE
        ELSE ChainEnds(H, H.style_map[pn], seen \cup {H.style_map[pn]})

\* The cache of s resolved from the raw batches of its whole ancestor
\* chain, no cache being read (for a chain that ends).
RECURSIVE FromScratch(_, _)
FromScratch(H, s) ==
    apply_batches(H,
                  IF H.styles[s].parent = None
                  THEN [i \in 1..property_numbers |-> UnsetSlot]
                  ELSE FromScratch(H, H.style_map[H.styles[s].parent]),
                  H.lists[H.styles[s].properties]).cache

\* The batches of style s, as dicts, in order.
BatchesOf(H, s) ==
    [ i \in 1..Len(H.lists[H.styles[s].properties]) |->
        H.dicts[H.lists[H.styles[s].properties][i]] ]

\* In this step build_style(s) was called and returned (styles_pending is
\* read before the step, the rest after it).
Resolved(s) ==
    /\ calls' = calls + 1
    /\ err' = "ok"
    /\ \/ /\ last'.op \in {"setattr", "take", "create"}
          /\ styles_built
          /\ last'.s = s
       \/ /\ last'.op \in {"build_styles", "rebuild"}
          /\ styles_pending # NonePending
          /\ s \in Range(styles_pending)

\* What a snapshot holds: for each name the batches, by value.
SnapshotContents(H, o) ==
    [ k \in DOMAIN o |-> [ i \in 1..Len(H.lists[o[k]]) |-> H.dicts[H.lists[o[k]][i]] ] ]

\* The slot of a prefix and a property.
Slot(prefix, prop) == prefix_offset[prefix] + property_number[prop]

(***************************************************************************)
(* C1.  Once build_styles() has completed, each raw-property mutation of a *)
(* heavy style S (setattr, delattr, take, setdefault) leaves S.cache equal *)
(* to the resolution of S's current batches over its heavy parent's cache. *)
(* Stated as the claim; delattr and setdefault do not rebuild.             *)
(***************************************************************************)
C1_MutationRebuilds ==
    ( /\ last.op \in {"setattr", "delattr", "take", "setdefault"}
      /\ styles_built
      /\ err = "ok"
      /\ styles[last.s].heavy
      /\ ParentCacheBuilt(Heap, last.s) )
    => styles[last.s].cache = ResolveOverParent(Heap, last.s)

C3_BuildEqualsFromScratch ==
    ( /\ last.op \in {"setattr", "take", "create"}
      /\ styles_built
      /\ err = "ok"
      /\ last.s # 0
      /\ styles[last.s].heavy
      /\ ChainEnds(Heap, last.s, {last.s}) )
    => styles[last.s].cache = FromScratch(Heap, last.s)

(***************************************************************************)
(* C4.  As claimed: build_styles() called twice in a row succeeds both     *)
(* times and the second call leaves every cache as the first one left it.  *)
(***************************************************************************)
C4_BuildTwice ==
    [][ ( /\ last.op = "build_styles"
          /\ err = "ok"
          /\ last'.op = "build_styles"
          /\ calls' = calls + 1 )
        => (err' = "ok" /\ styles' = styles)
      ]_vars

(***************************************************************************)
(* C5.  As claimed: create(name, parent) with a registered name fails and  *)
(* leaves the style registered under that name unchanged: no call of       *)
(* create succeeds on a registered name or rebinds one.                    *)
(***************************************************************************)
C5_DuplicateRejected ==
    [][ (last'.op = "create" /\ calls' = calls + 1) =>
          /\ err' = "ok" => styles'[last'.s].name \notin DOMAIN style_map
          /\ \A n \in DOMAIN style_map :
                /\ style_map'[n] = style_map[n]
                /\ styles'[style_map[n]] = styles[style_map[n]]
      ]_vars

(***************************************************************************)
(* C6.  As claimed: after restore(snapshot) every style of the snapshot    *)
(* has the snapshot's raw properties and a cache equal to their            *)
(* resolution, and the session is in the built state.                      *)
(***************************************************************************)
C6_RestoreRebuilds ==
    last.op = "restore" =>
        /\ styles_built
        /\ \A k \in DOMAIN backups[last.s] :
              /\ styles[style_map[k]].properties = backups[last.s][k]
              /\ ParentCacheBuilt(Heap, style_map[k])
              /\ styles[style_map[k]].cache = ResolveOverParent(Heap, style_map[k])

(***************************************************************************)
(* C6, amended.  After restore(snapshot) every style of the snapshot has   *)
(* the snapshot's list as its raw properties and is in styles_pending,     *)
(* which holds those styles and no other, once each; the session is left   *)
(* un-built (styles_built is False): the build is not re-run by restore.   *)
(***************************************************************************)
C6_RestoreMarksPending ==
    last.op = "restore" =>
        /\ err = "ok"
        /\ ~styles_built
        /\ styles_pending # NonePending
        /\ Len(styles_pending) = Cardinality(DOMAIN backups[last.s])
        /\ Range(styles_pending) = { style_map[k] : k \in DOMAIN backups[last.s] }
        /\ \A k \in DOMAIN backups[last.s] :
              styles[style_map[k]].properties = backups[last.s][k]

\* restore of a non-empty snapshot in a session that had been built.
C6_Witness ==
    /\ last.op = "restore"
    /\ built_once
    /\ ~styles_built
    /\ \E k \in DOMAIN backups[last.s] :
          /\ styles[style_map[k]].cache # NoCache
          /\ style_map[k] \in Range(styles_pending)

(***************************************************************************)
(* C7.  As claimed: a snapshot returned by backup() is independent of the  *)
(* live styles, so that a later restore gives back the batches as they     *)
(* were at backup(): no call changes what a snapshot already taken holds.  *)
(***************************************************************************)
C7_SnapshotIndependent ==
    [][ \A b \in DOMAIN backups :
          SnapshotContents(Heap', backups[b]) = SnapshotContents(Heap, backups[b])
      ]_vars

(***************************************************************************)
(* C8.  restore(o) of a snapshot o equal to what backup() would return now *)
(* (no mutation since it was taken) leaves every cache unchanged.          *)
(***************************************************************************)
C8_RoundTripKeepsCaches ==
    [][ ( /\ last'.op = "restore"
          /\ calls' = calls + 1
          /\ DOMAIN backups[last'.s] = DOMAIN style_map
          /\ \A k \in DOMAIN style_map :
                lists[backups[last'.s][k]] = lists[styles[style_map[k]].properties] )
        => \A i \in DOMAIN styles : styles'[i].cache = styles[i].cache
      ]_vars

\* restore of the snapshot of the very properties the styles have, in a
\* session that was built: a registered style keeps the cache it was built.
C8_Witness ==
    /\ last.op = "restore"
    /\ err = "ok"
    /\ built_once
    /\ DOMAIN backups[last.s] = DOMAIN style_map
    /\ \E k \in DOMAIN style_map :
          /\ styles[style_map[k]].properties = backups[last.s][k]
          /\ styles[style_map[k]].cache # NoCache
          /\ Len(styles[style_map[k]].cache) = property_numbers

(***************************************************************************)
(* C9.  As claimed: build_style on a style whose parent chain has a cycle  *)
(* ends with an error (any exception counts, the recursion limit too).     *)
(***************************************************************************)
C9_CycleReported ==
    ( /\ last.op \in {"setattr", "take"}
      /\ styles_built
      /\ ChainCyclic(Heap, last.s, {last.s}) )
    => err # "ok"

C11_RebuildSucceeds ==
    [][ (last'.op = "rebuild" /\ calls' = calls + 1 /\ built_once) =>
          /\ err' = "ok"
          /\ styles_built'
          /\ \A s \in Range(style_map') :
                (styles'[s].heavy /\ ChainEnds(Heap', s, {s}))
                  => styles'[s].cache = FromScratch(Heap', s)
      ]_vars

\* The batches of s resolved over an all-unset cache: what s itself sets.
OwnResolution(H, s) ==
    apply_batches(H, [i \in 1..property_numbers |-> UnsetSlot],
                  H.lists[H.styles[s].properties]).cache

(***************************************************************************)
(* C14.  As claimed: setdefault never changes the resolved value of a slot *)
(* that an existing batch of the style has set: every slot the style's     *)
(* batches write before the call resolves to the same value after it.      *)
(***************************************************************************)
C14_DefaultsNeverOverride ==
    [][ (last'.op = "setdefault" /\ calls' = calls + 1) =>
          \A before \in { OwnResolution(Heap, last'.s) } :
            \A after \in { OwnResolution(Heap', last'.s) } :
              \A i \in 1..property_numbers :
                before[i] # UnsetSlot => after[i] = before[i]
      ]_vars

(***************************************************************************)
(* C17.  Immediately after build_style(C) of a heavy style C that has no   *)
(* property batches and whose parent P is a registered (heavy) style,      *)
(* C.cache is element-wise equal to P.cache.  build_style(C) is the last   *)
(* thing create and take do in a built session.                            *)
(***************************************************************************)
C17_EmptyChildCopiesParent ==
    [][ ( /\ last'.op \in {"create", "take"}
          /\ calls' = calls + 1
          /\ styles_built
          /\ err' = "ok"
          /\ styles'[last'.s].heavy
          /\ lists'[styles'[last'.s].properties] = <<>>
          /\ styles'[last'.s].parent \in DOMAIN style_map' )
        => /\ styles'[last'.s].cache # NoCache
           /\ styles'[last'.s].cache = styles'[style_map'[styles'[last'.s].parent]].cache
      ]_vars

\* A style created in a built session under a parent whose cache holds a
\* value: the new style has no batches and a cache holding that value.
C17_Witness ==
    /\ last.op = "create"
    /\ err = "ok"
    /\ built_once
    /\ lists[styles[last.s].properties] = <<>>
    /\ styles[last.s].parent \in DOMAIN style_map
    /\ style_map[styles[last.s].parent] # last.s
    /\ \E i \in 1..property_numbers :
          /\ styles[last.s].cache[i] # UnsetSlot
          /\ styles[style_map[styles[last.s].parent]].cache[i] = styles[last.s].cache[i]

\* "a" has the one batch {xpos: v0}, its child "b" the one batch
\* {hover_xpos: v1}, and build_styles() has run.
PositionsBuilt(v0, v1) ==
    /\ styles_built
    /\ DOMAIN style_map = {"a", "b"}
    /\ styles[style_map["b"]].parent = "a"
    /\ styles[style_map["a"]].parent = None
    /\ BatchesOf(Heap, style_map["a"]) = << ("xpos" :> v0) >>
    /\ BatchesOf(Heap, style_map["b"]) = << ("hover_xpos" :> v1) >>

C13_AliasEveryPrefix ==
    last.op = "build_styles" =>
        /\ err # "Exception"
        /\ \A d \in Range(dicts) : \A key \in DOMAIN d :
              \A x \in DOMAIN prefix_subs, k \in DOMAIN substitutes :
                 key = x \o k =>
                    /\ key \in DOMAIN expansions
                    /\ expansions[key] = concat_expansions(base_expansions, x, substitutes[k])

\* The alternates of each registered prefix, as the registrations of the
\* ten prefixes give them.
C15_Alternates ==
    [ x \in DOMAIN prefix_subs |->
        CASE x = "selected_activate_"    -> {"selected_activate_"}
          [] x = "selected_hover_"       -> {"selected_hover_", "selected_activate_"}
          [] x = "selected_idle_"        -> {"selected_idle_"}
          [] x = "selected_insensitive_" -> {"selected_insensitive_"}
          [] x = "selected_"             -> {"selected_hover_", "selected_idle_",
                                             "selected_insensitive_", "selected_activate_"}
          [] x = "activate_"             -> {"selected_activate_", "activate_"}
          [] x = "hover_"                -> {"selected_hover_", "selected_activate_",
                                             "hover_", "activate_"}
          [] x = "idle_"                 -> {"selected_idle_", "idle_"}
          [] x = "insensitive_"          -> {"selected_insensitive_", "insensitive_"}
          [] x = ""                      -> {"selected_hover_", "selected_idle_",
                                             "selected_insensitive_", "selected_activate_",
                                             "hover_", "idle_", "insensitive_", "activate_"} ]

(***************************************************************************)
(* C15.  After the build, a parentless style whose only assignment is      *)
(* selected_hover_color = v has easy.color(v) in the selected_hover_ and   *)
(* the selected_activate_ slot of color and every other slot unset; and    *)
(* for every registered prefix X and property p the entries of X + p name  *)
(* exactly the slots of p under the alternates of X, each once.            *)
(***************************************************************************)
C15_WritesAlternatesOnly ==
    (last.op = "build_styles" /\ err = "ok") =>
      /\ \A s \in Registered : \A v \in Values :
           ( /\ styles[s].parent = None
             /\ BatchesOf(Heap, s) = << ("selected_hover_color" :> v) >> )
           => styles[s].cache =
                [ i \in 1..property_numbers |->
                    IF i - 1 \in { Slot("selected_hover_", "color"),
                                   Slot("selected_activate_", "color") }
                    THEN easy_color(v) ELSE UnsetSlot ]
      /\ \A x \in DOMAIN prefix_subs, p \in DOMAIN style_properties :
           /\ { e[2] : e \in Range(expansions[x \o p]) }
                = { Slot(alt, p) : alt \in C15_Alternates[x] }
           /\ Len(expansions[x \o p]) = Cardinality(C15_Alternates[x])

\* A built parentless style with the single assignment selected_hover_color.
C15_Witness ==
    /\ last.op = "build_styles"
    /\ err = "ok"
    /\ \E s \in Registered : \E v \in Values :
          /\ BatchesOf(Heap, s) = << ("selected_hover_color" :> v) >>
          /\ styles[s].cache[Slot("selected_activate_", "color") + 1] = easy_color(v)
          /\ styles[s].cache[Slot("hover_", "color") + 1] = UnsetSlot

\* The one batch of style s is the alias under prefix p, that of t the
\* canonical properties it stands for under p, all with the value v.
AliasAndCanonical(s, t, p, v) ==
    /\ BatchesOf(Heap, s) = << ((p \o "xalign") :> v) >>
    /\ BatchesOf(Heap, t) = << ((p \o "xpos") :> v) @@ ((p \o "xanchor") :> v) >>

(***************************************************************************)
(* C16.  A batch {xalign: v} resolves to the same cache, slot for slot, as *)
(* a batch {xpos: v, xanchor: v}, under every prefix for which the alias   *)
(* is defined: two parentless styles built with the one and the other      *)
(* have equal caches, and the two batches expand to the same sorted list.  *)
(***************************************************************************)
C16_AliasEqualsCanonical ==
    (last.op = "build_styles" /\ err = "ok") =>
      /\ \A s, t \in Registered : \A p \in {"", "hover_"} : \A v \in Values :
           AliasAndCanonical(s, t, p, v) => styles[s].cache = styles[t].cache
      /\ \A i \in 1..Len(substitute_prefixes) : \A v \in Values :
           expand_properties((substitute_prefixes[i] \o "xalign") :> v)
             = expand_properties(((substitute_prefixes[i] \o "xpos") :> v)
                                 @@ ((substitute_prefixes[i] \o "xanchor") :> v))

\* Two built styles, one given hover_xalign, the other hover_xpos and
\* hover_xanchor: both hold the value in the hover_ slots of xpos and xanchor.
C16_Witness ==
    /\ last.op = "build_styles"
    /\ err = "ok"
    /\ \E s, t \in Registered : \E v \in Values :
          /\ AliasAndCanonical(s, t, "hover_", v)
          /\ styles[s].cache[Slot("hover_", "xpos") + 1] = v
          /\ styles[t].cache[Slot("hover_", "xanchor") + 1] = v
          /\ styles[s].cache[Slot("idle_", "xpos") + 1] = UnsetSlot

(***************************************************************************)
(* C20.  As claimed: the caches build_styles() produces do not depend on   *)
(* the order of the pending list: building the pending styles in any       *)
(* other order would have given every style the same cache.                *)
(***************************************************************************)
C20_PendingOrderIrrelevant ==
    [][ ( /\ last'.op = "build_styles"
          /\ calls' = calls + 1
          /\ styles_pending # NonePending )
        => \A q \in Orders(Range(styles_pending)) :
              \A r \in { build_pending(Heap, q) } :
                 r.err = err' /\ r.styles = styles'
      ]_vars

\* The calls that would modify the store.
Modifying ==
    {"__setitem__", "__delitem__", "clear", "pop", "popitem", "update", "__ior__"}

(***************************************************************************)
(* C18.  As claimed: with config.developer false, every call that would    *)
(* modify the store (setdefault when the key is new) fails with an error   *)
(* and leaves the dict of the database as it was.                          *)
(***************************************************************************)
C18_ReadOnlyOutsideDeveloper ==
    [][ ( /\ ~developer
          /\ \/ last'.op \in Modifying
             \/ last'.op = "setdefault" /\ last'.new )
        => (err' # "ok" /\ get_dict' = get_dict)
      ]_vars

(***************************************************************************)
(* C19.  As claimed: when __setitem__, setdefault, update or |= is         *)
(* rejected by check (developer mode off, or a value that is not JSON),    *)
(* the dict of the database and the dirty flag are what they were before.  *)
(***************************************************************************)
C19_RejectedLeavesState ==
    [][ ( /\ last'.op \in {"__setitem__", "setdefault", "update", "__ior__"}
          /\ err' \in {"RuntimeError", "TypeError"} )
        => (get_dict' = get_dict /\ dirty' = dirty)
      ]_vars

(***************************************************************************)
(* C21.  As claimed: once the global build has completed, setattr on a     *)
(* heavy style S appends one single-entry batch to S.properties and        *)
(* rebuilds the cache of S only: the properties and the cache of every     *)
(* other registered style are left as they were.                           *)
(***************************************************************************)
C21_SetattrRebuildsSelfOnly ==
    [][ ( /\ last'.op = "setattr"
          /\ calls' = calls + 1
          /\ styles_built
          /\ styles[last'.s].heavy )
        => /\ Len(BatchesOf(Heap', last'.s)) = Len(BatchesOf(Heap, last'.s)) + 1
           /\ SubSeq(BatchesOf(Heap', last'.s), 1, Len(BatchesOf(Heap, last'.s)))
                = BatchesOf(Heap, last'.s)
           /\ Cardinality(DOMAIN BatchesOf(Heap', last'.s)[Len(BatchesOf(Heap', last'.s))]) = 1
           /\ \A t \in Registered \ {last'.s} :
                 /\ styles'[t].cache = styles[t].cache
                 /\ BatchesOf(Heap', t) = BatchesOf(Heap, t)
      ]_vars

(***************************************************************************)
(* C22.  As claimed: whenever styles_built is true, every heavy style      *)
(* registered in style_map has a cache of length property_numbers.         *)
(***************************************************************************)
C22_BuiltMeansMaterialized ==
    styles_built =>
        \A s \in Registered :
            styles[s].heavy => Len(styles[s].cache) = property_numbers

====
